---- MODULE Spec2Model ----
(***************************************************************************)
(* Authentication / authorization core of the REST API: auth handlers,    *)
(* auth use case, session use case, comments use case and the cookie      *)
(* helpers, over a key-value session backend and a user directory.        *)
(***************************************************************************)
EXTENDS Integers, FiniteSets, Sequences, TLC

(* ------------------------------ bounds --------------------------------- *)
NumUsers == 2
MaxSessions == 2
MaxComments == 2
MaxTime == 2
MaxTTL == 2
NumProcs == 2

UserIDs == 1..NumUsers
SessionIDs == 1..MaxSessions
CommentIDs == 1..MaxComments
TTLs == 1..MaxTTL
Procs == 1..NumProcs
\* Passwords a request may carry, and the ones users register with.
Passwords == {"secret1", "secret2"}
RegisterPasswords == {"secret1"}
CookieNames == {"session-id", "sid"}
Secrets == {"k1"}
WrongSecrets == {"k2"}
JWTExpires == {-1, MaxTTL}

NoUserID == 0
NoSessionID == 0

(* ------------------------------ values --------------------------------- *)
\* models.User as the core sees it: identity plus password(-hash) field.
User(id, pw) == [UserID |-> id, Password |-> pw]
NoUser == User(NoUserID, "")

\* net/http Cookie restricted to the fields the handlers set.
Cookie(n, v, age) == [Name |-> n, Value |-> v, Path |-> "/", MaxAge |-> age]
NoCookie == [Name |-> "", Value |-> NoSessionID, Path |-> "", MaxAge |-> 0]

\* A cookie as a request carries it: name and value only.
ReqCookie(n, v) == [Name |-> n, Value |-> v]
NoReqCookie == ReqCookie("", NoSessionID)

NoToken == [sub |-> NoUserID, iat |-> 0, exp |-> 0, sig |-> <<>>]

VARIABLES
    cfg,        \* config.Config: Session.Name, Session.Expire, JWT secret / ttl
    now,        \* wall clock, in seconds
    users,      \* user directory: UserID -> stored models.User
    removed,    \* user IDs deleted from the directory
    comments,   \* comments repository: CommentID -> [AuthorID, Message]
    store,      \* key-value backend: session ID -> [UserID, exp]
    issued,     \* session IDs the backend has generated so far
    loginCookies, \* session cookies handed out by Login / Register
    tokens,     \* bearer tokens handed out by Login / Register
    resp,       \* outcome of the last operation
    calls       \* session use-case calls in flight, one per request task

vars == <<cfg, now, users, removed, comments, store, issued,
          loginCookies, tokens, resp, calls>>

(* --------------------------- error mapping ----------------------------- *)
\* httpErrors / utils.ErrResponseWithLog: error kind -> HTTP status.
ErrStatus(err) ==
    CASE err = "BadRequest" -> 400
      [] err = "Unauthorized" -> 401
      [] err = "Forbidden" -> 403
      [] err = "NotFound" -> 404
      [] OTHER -> 500

(* -------------------------- credential manager ------------------------- *)
HashPassword(p) == "$2a$" \o p

ComparePasswords(hash, candidate) ==
    IF hash = HashPassword(candidate) THEN "" ELSE "Unauthorized"

SanitizePassword(u) == [u EXCEPT !.Password = ""]

(* ----------------------------- token issuer ---------------------------- *)
Sign(sub, iat, exp, secret) == <<sub, iat, exp, secret>>

GenerateJWTToken(u, c, t) ==
    [sub |-> u.UserID, iat |-> t, exp |-> t + c.JWTExpire,
     sig |-> Sign(u.UserID, t, t + c.JWTExpire, c.JWTSecret)]

\* Signature first, expiry second.
VerifyToken(tok, secret, t) ==
    IF tok.sig # Sign(tok.sub, tok.iat, tok.exp, secret)
    THEN [err |-> "InvalidToken", sub |-> NoUserID]
    ELSE IF t >= tok.exp
         THEN [err |-> "ExpiredToken", sub |-> NoUserID]
         ELSE [err |-> "", sub |-> tok.sub]

\* What a client can do to a token it holds before presenting it: nothing,
\* rewrite the subject claim, or push the expiry claim forward; the
\* signature bytes stay as issued.
TamperKinds == {"none", "sub", "exp"}

Tamper(tok, kind) ==
    CASE kind = "sub" -> [tok EXCEPT !.sub = (tok.sub % NumUsers) + 1]
      [] kind = "exp" -> [tok EXCEPT !.exp = tok.exp + 1]
      [] OTHER -> tok

(* ------------------------ session repository --------------------------- *)
\* Key-value backend contract: SET key value EX ttl / GET key / DEL key.
\* st is the backend's key space, up says whether the backend answers.
RepoCreateSession(st, id, sess, expire, up) ==
    IF up
    THEN [store |-> [k \in DOMAIN st \cup {id} |->
                        IF k = id THEN [UserID |-> sess.UserID, exp |-> now + expire]
                        ELSE st[k]],
          id |-> id, err |-> ""]
    ELSE [store |-> st, id |-> NoSessionID, err |-> "StoreError"]

RepoDeleteByID(st, id, up) ==
    IF up
    THEN [store |-> [k \in DOMAIN st \ {id} |-> st[k]], err |-> ""]
    ELSE [store |-> st, err |-> "StoreError"]

RepoGetSessionByID(st, id, up) ==
    IF ~up THEN [UserID |-> NoUserID, err |-> "StoreError"]
    ELSE IF id \in DOMAIN st /\ now < st[id].exp
         THEN [UserID |-> st[id].UserID, err |-> ""]
         ELSE [UserID |-> NoUserID, err |-> "NotFound"]

\* Backend-driven eviction of the keys whose TTL has elapsed at time t.
Evict(st, t) == [k \in {j \in DOMAIN st : st[j].exp > t} |-> st[k]]

\* The backend's ID generator: random and never repeating.  All unused IDs
\* are alike, so the smallest one stands for the one it draws.
NewSessionID(used) ==
    {id \in SessionIDs \ used : \A j \in SessionIDs \ used : id <= j}

(* -------------------------- session use case --------------------------- *)
\* Variant: the use case keys the record itself, by the first free key.
CreateSession_ReuseKey(st, id, sess, expire, up) ==
    LET free == {k \in SessionIDs \ DOMAIN st :
                    \A j \in SessionIDs \ DOMAIN st : k <= j} IN
    IF free = {} THEN RepoCreateSession(st, id, sess, expire, up)
    ELSE RepoCreateSession(st, CHOOSE k \in free : TRUE, sess, expire, up)

CreateSession(st, id, sess, expire, up) == RepoCreateSession(st, id, sess, expire, up)

\* Variant: the use case reads the key instead of deleting it.
DeleteByID_NoDelete(st, id, up) ==
    [store |-> st, err |-> IF up THEN "" ELSE "StoreError"]

\* Variant: deleting a key that is not there is reported as NotFound.
DeleteByID_AbsentIsError(st, id, up) ==
    IF up /\ id \notin DOMAIN st THEN [store |-> st, err |-> "NotFound"]
    ELSE RepoDeleteByID(st, id, up)

\* Variant: the delete drops every key of the backend.
DeleteByID_FlushAll(st, id, up) ==
    IF up THEN [store |-> [k \in {} |-> st[k]], err |-> ""]
    ELSE [store |-> st, err |-> "StoreError"]

DeleteByID(st, id, up) == RepoDeleteByID(st, id, up)

\* Variant: a miss is answered with an empty session and no error.
GetSessionByID_EmptyOnMiss(st, id, up) ==
    LET r == RepoGetSessionByID(st, id, up) IN
    IF r.err = "NotFound" THEN [UserID |-> NoUserID, err |-> ""] ELSE r

\* Variant: a failed read is tried again, and the backend answers then.
GetSessionByID_RetryOnError(st, id, up) ==
    LET r == RepoGetSessionByID(st, id, up) IN
    IF r.err = "StoreError" THEN RepoGetSessionByID(st, id, TRUE) ELSE r

GetSessionByID(st, id, up) == RepoGetSessionByID(st, id, up)

(* ------------------------------ cookies -------------------------------- *)
\* Variant: the cookie lives as long as the bearer token.
CreateSessionCookie_TokenAge(c, session) ==
    Cookie(c.SessionName, session, c.JWTExpire)

CreateSessionCookie(c, session) == Cookie(c.SessionName, session, c.SessionExpire)

DeleteSessionCookie(sessionName) == Cookie(sessionName, NoSessionID, -1)

(* ------------------------------ response ------------------------------- *)
\* What the last operation answered and did; the fields an operation does
\* not use keep the values below.
Blank == [op |-> "", status |-> 0, err |-> "", cookie |-> NoCookie,
          reqCookie |-> NoReqCookie, body |-> {}, token |-> NoToken,
          sessID |-> NoSessionID, sessErr |-> "notcalled", owner |-> NoUserID,
          ttl |-> 0, actor |-> NoUserID, guard |-> "notcalled",
          mutated |-> FALSE, absent |-> FALSE, secret |-> "", tamper |-> ""]

(* ---------------------------- user directory -------------------------- *)
\* auth.Repository: the stored identity keeps its password hash.
RepoRegister(us, u, dbOk) ==
    IF dbOk THEN [users |-> [k \in DOMAIN us \cup {u.UserID} |->
                                IF k = u.UserID THEN u ELSE us[k]],
                  user |-> u, err |-> ""]
    ELSE [users |-> us, user |-> NoUser, err |-> "Internal"]

RepoUpdate(us, u, dbOk) ==
    IF ~dbOk THEN [users |-> us, user |-> NoUser, err |-> "Internal"]
    ELSE IF u.UserID \notin DOMAIN us
         THEN [users |-> us, user |-> NoUser, err |-> "NotFound"]
         ELSE LET nu == IF u.Password = "" THEN us[u.UserID] ELSE u IN
              [users |-> [us EXCEPT ![u.UserID] = nu], user |-> nu, err |-> ""]

RepoDelete(us, id, dbOk) ==
    IF ~dbOk THEN [users |-> us, err |-> "Internal"]
    ELSE IF id \notin DOMAIN us THEN [users |-> us, err |-> "NotFound"]
         ELSE [users |-> [k \in DOMAIN us \ {id} |-> us[k]], err |-> ""]

RepoGetByID(us, id, dbOk) ==
    IF ~dbOk THEN [user |-> NoUser, err |-> "Internal"]
    ELSE IF id \notin DOMAIN us THEN [user |-> NoUser, err |-> "NotFound"]
         ELSE [user |-> us[id], err |-> ""]

\* The directory is keyed by e-mail through the identity it belongs to.
RepoFindByEmail(us, id, dbOk) == RepoGetByID(us, id, dbOk)

RepoGetUsers(us, dbOk) ==
    IF dbOk THEN [list |-> {us[k] : k \in DOMAIN us}, err |-> ""]
    ELSE [list |-> {}, err |-> "Internal"]

RepoFindByName(us, id, dbOk) ==
    IF dbOk THEN [list |-> {us[k] : k \in DOMAIN us \cap {id}}, err |-> ""]
    ELSE [list |-> {}, err |-> "Internal"]

\* models.User.PrepareCreate / PrepareUpdate: hash the password in place.
PrepareCreate(u, hashOk) ==
    IF hashOk THEN [user |-> [u EXCEPT !.Password = HashPassword(u.Password)], err |-> ""]
    ELSE [user |-> u, err |-> "BadRequest"]

PrepareUpdate(u, hashOk) ==
    IF u.Password = "" THEN [user |-> u, err |-> ""]
    ELSE IF hashOk
         THEN [user |-> [u EXCEPT !.Password = HashPassword(u.Password)], err |-> ""]
         ELSE [user |-> u, err |-> "Internal"]

(* ----------------------------- auth use case --------------------------- *)
AuthFail(us, e) == [users |-> us, user |-> NoUser, token |-> NoToken, err |-> e]

UCRegister(us, u, valid, hashOk, dbOk) ==
    IF ~valid THEN AuthFail(us, "BadRequest")
    ELSE LET p == PrepareCreate(u, hashOk) IN
         IF p.err # "" THEN AuthFail(us, "BadRequest")
         ELSE LET r == RepoRegister(us, p.user, dbOk) IN
              IF r.err # "" THEN AuthFail(us, r.err)
              ELSE LET createdUser == SanitizePassword(r.user) IN
                   [users |-> r.users, user |-> createdUser,
                    token |-> GenerateJWTToken(createdUser, cfg, now), err |-> ""]

UCUpdate(us, u, valid, hashOk, dbOk) ==
    IF ~valid THEN AuthFail(us, "BadRequest")
    ELSE LET p == PrepareUpdate(u, hashOk) IN
         IF p.err # "" THEN AuthFail(us, p.err)
         ELSE LET r == RepoUpdate(us, p.user, dbOk) IN
              IF r.err # "" THEN AuthFail(us, r.err)
              ELSE [users |-> r.users, user |-> SanitizePassword(r.user),
                    token |-> NoToken, err |-> ""]

UCDelete(us, id, dbOk) == RepoDelete(us, id, dbOk)

UCGetByID(us, id, dbOk) ==
    LET r == RepoGetByID(us, id, dbOk) IN
    IF r.err # "" THEN [user |-> NoUser, err |-> r.err]
    ELSE [user |-> SanitizePassword(r.user), err |-> ""]

UCFindByName(us, id, dbOk) == RepoFindByName(us, id, dbOk)

UCGetUsers(us, dbOk) ==
    LET r == RepoGetUsers(us, dbOk) IN
    IF r.err # "" THEN [list |-> {}, err |-> r.err]
    ELSE [list |-> r.list, err |-> ""]

\* Variant: the token is minted with the session's expiry.
UCLogin_SessionTTL(us, id, pw, dbOk) ==
    LET f == RepoFindByEmail(us, id, dbOk) IN
    IF f.err # "" THEN AuthFail(us, f.err)
    ELSE LET c == ComparePasswords(f.user.Password, pw) IN
         IF c # "" THEN AuthFail(us, c)
         ELSE LET user == SanitizePassword(f.user) IN
              [users |-> us, user |-> user,
               token |-> GenerateJWTToken(user,
                            [cfg EXCEPT !.JWTExpire = cfg.SessionExpire], now),
               err |-> ""]

\* Variant: the candidate password is never compared.
UCLogin_NoCompare(us, id, pw, dbOk) ==
    LET f == RepoFindByEmail(us, id, dbOk) IN
    IF f.err # "" THEN AuthFail(us, f.err)
    ELSE LET user == SanitizePassword(f.user) IN
         [users |-> us, user |-> user,
          token |-> GenerateJWTToken(user, cfg, now), err |-> ""]

\* Variant: the token is minted for the zero-valued user.
UCLogin_ZeroSubject(us, id, pw, dbOk) ==
    LET f == RepoFindByEmail(us, id, dbOk) IN
    IF f.err # "" THEN AuthFail(us, f.err)
    ELSE LET c == ComparePasswords(f.user.Password, pw) IN
         IF c # "" THEN AuthFail(us, c)
         ELSE LET user == SanitizePassword(f.user) IN
              [users |-> us, user |-> user,
               token |-> GenerateJWTToken(NoUser, cfg, now), err |-> ""]

UCLogin(us, id, pw, dbOk) ==
    LET f == RepoFindByEmail(us, id, dbOk) IN
    IF f.err # "" THEN AuthFail(us, f.err)
    ELSE LET c == ComparePasswords(f.user.Password, pw) IN
         IF c # "" THEN AuthFail(us, c)
         ELSE LET user == SanitizePassword(f.user) IN
              [users |-> us, user |-> user,
               token |-> GenerateJWTToken(user, cfg, now), err |-> ""]

(* --------------------------- ownership guard --------------------------- *)
\* The request context: the user the auth middleware stored, if any.
Ctx(u) == [user |-> u]

\* Variant: the type assertion on the context value never succeeds.
GetUserFromCtx_WrongType(ctx) == [user |-> NoUserID, err |-> "Unauthorized"]

GetUserFromCtx(ctx) ==
    IF ctx.user = NoUserID THEN [user |-> NoUserID, err |-> "Unauthorized"]
    ELSE [user |-> ctx.user, err |-> ""]

ValidateIsOwner(ctx, creatorID) ==
    LET g == GetUserFromCtx(ctx) IN
    IF g.err # "" THEN g.err
    ELSE IF g.user # creatorID THEN "Forbidden" ELSE ""

GuardResult(e) == IF e = "" THEN "ok" ELSE e

(* --------------------------- comments use case ------------------------- *)
Messages == {"m1", "m2"}

CommRepoGetByID(cs, id) ==
    IF id \in DOMAIN cs THEN [comm |-> cs[id], err |-> ""]
    ELSE [comm |-> [AuthorID |-> NoUserID, Message |-> ""], err |-> "NotFound"]

CommRepoCreate(cs, id, author, msg) ==
    [k \in DOMAIN cs \cup {id} |->
        IF k = id THEN [AuthorID |-> author, Message |-> msg] ELSE cs[k]]

CommRepoUpdate(cs, id, msg) == [cs EXCEPT ![id].Message = msg]

CommRepoDelete(cs, id) == [k \in DOMAIN cs \ {id} |-> cs[k]]

\* Result of a comments use-case call: new repository, error (its cause and
\* the message errors.Wrap put around it), what the guard said and whether
\* the repository mutation was called.
\* Variant: the repository Update runs before the guard's verdict is used.
CommentsUpdate_MutateFirst(cs, ctx, id, msg) ==
    LET g == CommRepoGetByID(cs, id) IN
    IF g.err # ""
    THEN [comments |-> cs, err |-> g.err, wrap |-> "", guard |-> "notcalled",
          owner |-> NoUserID, mutated |-> FALSE]
    ELSE LET v == ValidateIsOwner(ctx, g.comm.AuthorID) IN
         IF v # ""
         THEN [comments |-> CommRepoUpdate(cs, id, msg), err |-> v,
               wrap |-> "commentsUC Update ValidateIsOwner",
               guard |-> GuardResult(v),
               owner |-> g.comm.AuthorID, mutated |-> TRUE]
         ELSE [comments |-> CommRepoUpdate(cs, id, msg), err |-> "", wrap |-> "",
               guard |-> "ok", owner |-> g.comm.AuthorID, mutated |-> TRUE]

CommentsUpdate(cs, ctx, id, msg) ==
    LET g == CommRepoGetByID(cs, id) IN
    IF g.err # ""
    THEN [comments |-> cs, err |-> g.err, wrap |-> "", guard |-> "notcalled",
          owner |-> NoUserID, mutated |-> FALSE]
    ELSE LET v == ValidateIsOwner(ctx, g.comm.AuthorID) IN
         IF v # ""
         THEN [comments |-> cs, err |-> v, wrap |-> "commentsUC Update ValidateIsOwner",
               guard |-> GuardResult(v),
               owner |-> g.comm.AuthorID, mutated |-> FALSE]
         ELSE [comments |-> CommRepoUpdate(cs, id, msg), err |-> "", wrap |-> "",
               guard |-> "ok", owner |-> g.comm.AuthorID, mutated |-> TRUE]

CommentsDelete(cs, ctx, id) ==
    LET g == CommRepoGetByID(cs, id) IN
    IF g.err # ""
    THEN [comments |-> cs, err |-> g.err, wrap |-> "", guard |-> "notcalled",
          owner |-> NoUserID, mutated |-> FALSE]
    ELSE LET v == ValidateIsOwner(ctx, g.comm.AuthorID) IN
         IF v # ""
         THEN [comments |-> cs, err |-> v, wrap |-> "commentsUC Delete ValidateIsOwner",
               guard |-> GuardResult(v),
               owner |-> g.comm.AuthorID, mutated |-> FALSE]
         ELSE [comments |-> CommRepoDelete(cs, id), err |-> "", wrap |-> "",
               guard |-> "ok", owner |-> g.comm.AuthorID, mutated |-> TRUE]

(* ----------------------------- auth handlers --------------------------- *)
ErrResponse(op, e) == [Blank EXCEPT !.op = op, !.status = ErrStatus(e), !.err = e]

\* Variant: the stored user is taken back when CreateSession fails.
HandlersRegister_Rollback(us, st, u, sid, readOk, valid, hashOk, dbOk, up) ==
    IF ~readOk
    THEN [users |-> us, store |-> st, resp |-> ErrResponse("Register", "BadRequest")]
    ELSE LET r == UCRegister(us, u, valid, hashOk, dbOk) IN
         IF r.err # ""
         THEN [users |-> us, store |-> st, resp |-> ErrResponse("Register", r.err)]
         ELSE LET s == CreateSession(st, sid, [UserID |-> r.user.UserID],
                                     cfg.SessionExpire, up) IN
              IF s.err # ""
              THEN [users |-> us, store |-> s.store,
                    resp |-> [ErrResponse("Register", s.err) EXCEPT
                                 !.sessErr = s.err, !.owner = r.user.UserID,
                                 !.ttl = cfg.SessionExpire]]
              ELSE [users |-> r.users, store |-> s.store,
                    resp |-> [Blank EXCEPT
                                 !.op = "Register", !.status = 201,
                                 !.cookie = CreateSessionCookie(cfg, s.id),
                                 !.body = {r.user}, !.token = r.token,
                                 !.sessID = s.id, !.sessErr = "",
                                 !.owner = r.user.UserID,
                                 !.ttl = cfg.SessionExpire]]

\* Register: read the request, register the user, create the session, set
\* the cookie, answer 201.
HandlersRegister(us, st, u, sid, readOk, valid, hashOk, dbOk, up) ==
    IF ~readOk
    THEN [users |-> us, store |-> st, resp |-> ErrResponse("Register", "BadRequest")]
    ELSE LET r == UCRegister(us, u, valid, hashOk, dbOk) IN
         IF r.err # ""
         THEN [users |-> us, store |-> st, resp |-> ErrResponse("Register", r.err)]
         ELSE LET s == CreateSession(st, sid, [UserID |-> r.user.UserID],
                                     cfg.SessionExpire, up) IN
              IF s.err # ""
              THEN [users |-> r.users, store |-> s.store,
                    resp |-> [ErrResponse("Register", s.err) EXCEPT
                                 !.sessErr = s.err, !.owner = r.user.UserID,
                                 !.ttl = cfg.SessionExpire]]
              ELSE [users |-> r.users, store |-> s.store,
                    resp |-> [Blank EXCEPT
                                 !.op = "Register", !.status = 201,
                                 !.cookie = CreateSessionCookie(cfg, s.id),
                                 !.body = {r.user}, !.token = r.token,
                                 !.sessID = s.id, !.sessErr = "",
                                 !.owner = r.user.UserID,
                                 !.ttl = cfg.SessionExpire]]

\* Variant: the error of CreateSession is dropped.
HandlersLogin_IgnoreStoreErr(us, st, id, pw, sid, readOk, dbOk, up) ==
    IF ~readOk
    THEN [users |-> us, store |-> st, resp |-> ErrResponse("Login", "BadRequest")]
    ELSE LET r == UCLogin(us, id, pw, dbOk) IN
         IF r.err # ""
         THEN [users |-> us, store |-> st, resp |-> ErrResponse("Login", r.err)]
         ELSE LET s == CreateSession(st, sid, [UserID |-> r.user.UserID],
                                     cfg.SessionExpire, up) IN
              [users |-> us, store |-> s.store,
               resp |-> [Blank EXCEPT
                            !.op = "Login", !.status = 200,
                            !.cookie = CreateSessionCookie(cfg, s.id),
                            !.body = {r.user}, !.token = r.token,
                            !.sessID = s.id, !.sessErr = s.err,
                            !.owner = r.user.UserID,
                            !.ttl = cfg.SessionExpire]]

\* Variant: a login ends the sessions the user already has.
HandlersLogin_SingleSession(us, st, id, pw, sid, readOk, dbOk, up) ==
    IF ~readOk
    THEN [users |-> us, store |-> st, resp |-> ErrResponse("Login", "BadRequest")]
    ELSE LET r == UCLogin(us, id, pw, dbOk) IN
         IF r.err # ""
         THEN [users |-> us, store |-> st, resp |-> ErrResponse("Login", r.err)]
         ELSE LET others == {k \in DOMAIN st : st[k].UserID # r.user.UserID}
                  s == CreateSession([k \in others |-> st[k]], sid,
                                     [UserID |-> r.user.UserID],
                                     cfg.SessionExpire, up) IN
              IF s.err # ""
              THEN [users |-> us, store |-> s.store,
                    resp |-> [ErrResponse("Login", s.err) EXCEPT
                                 !.sessErr = s.err, !.owner = r.user.UserID,
                                 !.ttl = cfg.SessionExpire]]
              ELSE [users |-> us, store |-> s.store,
                    resp |-> [Blank EXCEPT
                                 !.op = "Login", !.status = 200,
                                 !.cookie = CreateSessionCookie(cfg, s.id),
                                 !.body = {r.user}, !.token = r.token,
                                 !.sessID = s.id, !.sessErr = "",
                                 !.owner = r.user.UserID,
                                 !.ttl = cfg.SessionExpire]]

HandlersLogin(us, st, id, pw, sid, readOk, dbOk, up) ==
    IF ~readOk
    THEN [users |-> us, store |-> st, resp |-> ErrResponse("Login", "BadRequest")]
    ELSE LET r == UCLogin(us, id, pw, dbOk) IN
         IF r.err # ""
         THEN [users |-> us, store |-> st, resp |-> ErrResponse("Login", r.err)]
         ELSE LET s == CreateSession(st, sid, [UserID |-> r.user.UserID],
                                     cfg.SessionExpire, up) IN
              IF s.err # ""
              THEN [users |-> us, store |-> s.store,
                    resp |-> [ErrResponse("Login", s.err) EXCEPT
                                 !.sessErr = s.err, !.owner = r.user.UserID,
                                 !.ttl = cfg.SessionExpire]]
              ELSE [users |-> us, store |-> s.store,
                    resp |-> [Blank EXCEPT
                                 !.op = "Login", !.status = 200,
                                 !.cookie = CreateSessionCookie(cfg, s.id),
                                 !.body = {r.user}, !.token = r.token,
                                 !.sessID = s.id, !.sessErr = "",
                                 !.owner = r.user.UserID,
                                 !.ttl = cfg.SessionExpire]]

\* echo Context.Cookie(name) on a request carrying the cookie ck.
RequestCookie(ck, name) ==
    IF ck.Name = name THEN [cookie |-> ck, err |-> ""]
    ELSE [cookie |-> NoReqCookie, err |-> "ErrNoCookie"]

\* Variant: the cookie is cleared before DeleteByID's result is looked at.
HandlersLogout_ClearFirst(st, ck, up) ==
    LET c == RequestCookie(ck, "session-id") IN
    IF c.err # ""
    THEN [store |-> st,
          resp |-> [ErrResponse("Logout", "Unauthorized") EXCEPT !.reqCookie = ck]]
    ELSE LET d == DeleteByID(st, c.cookie.Value, up) IN
         IF d.err # ""
         THEN [store |-> d.store,
               resp |-> [ErrResponse("Logout", d.err) EXCEPT
                            !.cookie = DeleteSessionCookie(cfg.SessionName),
                            !.reqCookie = ck, !.sessErr = d.err,
                            !.sessID = c.cookie.Value]]
         ELSE [store |-> d.store,
               resp |-> [Blank EXCEPT
                            !.op = "Logout", !.status = 200, !.reqCookie = ck,
                            !.cookie = DeleteSessionCookie(cfg.SessionName),
                            !.sessErr = "", !.sessID = c.cookie.Value]]

HandlersLogout(st, ck, up) ==
    LET c == RequestCookie(ck, "session-id") IN
    IF c.err # ""
    THEN [store |-> st,
          resp |-> [ErrResponse("Logout", "Unauthorized") EXCEPT !.reqCookie = ck]]
    ELSE LET d == DeleteByID(st, c.cookie.Value, up) IN
         IF d.err # ""
         THEN [store |-> d.store,
               resp |-> [ErrResponse("Logout", d.err) EXCEPT
                            !.reqCookie = ck, !.sessErr = d.err,
                            !.sessID = c.cookie.Value]]
         ELSE [store |-> d.store,
               resp |-> [Blank EXCEPT
                            !.op = "Logout", !.status = 200, !.reqCookie = ck,
                            !.cookie = DeleteSessionCookie(cfg.SessionName),
                            !.sessErr = "", !.sessID = c.cookie.Value]]

\* Update / Delete of a user: the path parameter names the user, the
\* context may carry the acting user.
HandlersUpdate(us, ctx, u, paramOk, readOk, valid, hashOk, dbOk) ==
    IF ~paramOk \/ ~readOk
    THEN [users |-> us,
          resp |-> [ErrResponse("UserUpdate", "BadRequest") EXCEPT !.actor = ctx.user]]
    ELSE LET r == UCUpdate(us, u, valid, hashOk, dbOk) IN
         IF r.err # ""
         THEN [users |-> us,
               resp |-> [ErrResponse("UserUpdate", r.err) EXCEPT !.actor = ctx.user]]
         ELSE [users |-> r.users,
               resp |-> [Blank EXCEPT !.op = "UserUpdate", !.status = 200,
                                      !.body = {r.user}, !.actor = ctx.user,
                                      !.owner = u.UserID, !.mutated = TRUE]]

HandlersDelete(us, ctx, id, paramOk, dbOk) ==
    IF ~paramOk
    THEN [users |-> us,
          resp |-> [ErrResponse("UserDelete", "BadRequest") EXCEPT !.actor = ctx.user]]
    ELSE LET r == UCDelete(us, id, dbOk) IN
         IF r.err # ""
         THEN [users |-> us,
               resp |-> [ErrResponse("UserDelete", r.err) EXCEPT !.actor = ctx.user]]
         ELSE [users |-> r.users,
               resp |-> [Blank EXCEPT !.op = "UserDelete", !.status = 200,
                                      !.actor = ctx.user, !.owner = id,
                                      !.mutated = TRUE]]

HandlersGetUserByID(us, id, paramOk, dbOk) ==
    IF ~paramOk THEN ErrResponse("GetUserByID", "BadRequest")
    ELSE LET r == UCGetByID(us, id, dbOk) IN
         IF r.err # "" THEN ErrResponse("GetUserByID", r.err)
         ELSE [Blank EXCEPT !.op = "GetUserByID", !.status = 200, !.body = {r.user}]

HandlersFindByName(us, id, nameOk, pageOk, dbOk) ==
    IF ~nameOk \/ ~pageOk THEN ErrResponse("FindByName", "BadRequest")
    ELSE LET r == UCFindByName(us, id, dbOk) IN
         IF r.err # "" THEN ErrResponse("FindByName", r.err)
         ELSE [Blank EXCEPT !.op = "FindByName", !.status = 200, !.body = r.list]

HandlersGetUsers(us, pageOk, dbOk) ==
    IF ~pageOk THEN ErrResponse("GetUsers", "BadRequest")
    ELSE LET r == UCGetUsers(us, dbOk) IN
         IF r.err # "" THEN ErrResponse("GetUsers", r.err)
         ELSE [Blank EXCEPT !.op = "GetUsers", !.status = 200, !.body = r.list]

(* --------------------------- calls in flight --------------------------- *)
\* A request task inside a session use-case call: invoked ("called"),
\* answered by the backend ("done"), or not in a call ("idle").
Idle == [op |-> "", id |-> NoSessionID, owner |-> NoUserID, phase |-> "idle",
         err |-> "", up |-> TRUE]

(* -------------------------------- Init --------------------------------- *)
Init ==
    /\ cfg \in [SessionName : CookieNames, SessionExpire : {1},
                JWTSecret : Secrets, JWTExpire : {MaxTTL}]
    /\ now = 0
    /\ users = <<>>
    /\ removed = {}
    /\ comments = <<>>
    /\ store = <<>>
    /\ issued = {}
    /\ loginCookies = {}
    /\ tokens = {}
    /\ resp = Blank
    /\ calls = [p \in Procs |-> Idle]

(* ----------------------- session use-case calls ------------------------ *)
\* The use case called on its own (session middleware, tests).
SessCreate ==
    \E id \in NewSessionID(issued), owner \in UserIDs, ttl \in TTLs, up \in BOOLEAN :
        LET r == CreateSession(store, id, [UserID |-> owner], ttl, up) IN
        /\ store' = r.store
        /\ issued' = IF up THEN issued \cup {id} ELSE issued
        /\ resp' = [Blank EXCEPT !.op = "CreateSession", !.err = r.err,
                                 !.sessErr = r.err, !.sessID = r.id,
                                 !.owner = owner, !.ttl = ttl]
        /\ UNCHANGED <<calls, cfg, now, users, removed, comments,
                       loginCookies, tokens>>

SessDelete ==
    \E id \in SessionIDs, up \in BOOLEAN :
        LET r == DeleteByID(store, id, up) IN
        /\ store' = r.store
        /\ resp' = [Blank EXCEPT !.op = "DeleteByID", !.err = r.err,
                                 !.sessErr = r.err, !.sessID = id,
                                 !.absent = (id \notin DOMAIN store)]
        /\ UNCHANGED <<calls, cfg, now, users, removed, comments, issued,
                       loginCookies, tokens>>

SessGet ==
    \E id \in SessionIDs, up \in BOOLEAN :
        LET r == GetSessionByID(store, id, up) IN
        /\ resp' = [Blank EXCEPT !.op = "GetSessionByID", !.err = r.err,
                                 !.sessErr = r.err, !.sessID = id,
                                 !.owner = r.UserID,
                                 !.absent = (id \notin DOMAIN store)]
        /\ UNCHANGED <<calls, cfg, now, users, removed, comments, store, issued,
                       loginCookies, tokens>>

\* One second passes; the backend drops the keys whose TTL has elapsed.
Tick ==
    /\ now < MaxTime
    /\ now' = now + 1
    /\ store' = Evict(store, now + 1)
    /\ resp' = [Blank EXCEPT !.op = "Tick"]
    /\ UNCHANGED <<calls, cfg, users, removed, comments, issued,
                   loginCookies, tokens>>

(* --------------------------- token verification ------------------------ *)
\* A bearer token handed out earlier comes back, possibly altered, and is
\* verified under the configured secret or under another one.
VerifyTok ==
    \E tok \in tokens, kind \in TamperKinds, secret \in Secrets \cup WrongSecrets :
        LET presented == Tamper(tok, kind)
            r == VerifyToken(presented, secret, now) IN
        /\ resp' = [Blank EXCEPT !.op = "VerifyToken", !.err = r.err,
                                 !.owner = r.sub, !.token = presented,
                                 !.secret = secret, !.tamper = kind]
        /\ UNCHANGED <<calls, cfg, now, users, removed, comments, store, issued,
                       loginCookies, tokens>>

(* ------------------- concurrent session use-case calls ---------------- *)
\* A CreateSession or GetSessionByID call has its result and has not handed
\* it to its request task yet.  The hand-over touches nothing but that task,
\* so it commutes with every other step; it is taken before the next step.
\* A finished DeleteByID stays visible until its task moves on.
Returning ==
    \E q \in Procs : calls[q].phase = "done" /\ calls[q].op # "DeleteByID"

\* A request task enters a use-case call.
ConcInvoke(p) ==
    /\ ~Returning
    /\ calls[p].phase = "idle"
    /\ \/ calls' = [calls EXCEPT ![p] = [Idle EXCEPT !.op = "CreateSession",
                                                !.phase = "called"]]
       \/ \E id \in issued \cup NewSessionID(issued) :
            calls' = [calls EXCEPT ![p] = [Idle EXCEPT !.op = "GetSessionByID",
                                             !.id = id, !.phase = "called"]]
       \/ \E id \in issued :
            calls' = [calls EXCEPT ![p] = [Idle EXCEPT !.op = "DeleteByID",
                                             !.id = id, !.phase = "called"]]
    /\ UNCHANGED <<cfg, now, users, removed, comments, store, issued,
                   loginCookies, tokens, resp>>

\* The use case's one backend call, atomic on its key.
ConcBackend(p) ==
    /\ ~Returning
    /\ calls[p].phase = "called"
    /\ \E up \in BOOLEAN :
        \/ /\ calls[p].op = "CreateSession"
           /\ \E id \in NewSessionID(issued), owner \in UserIDs :
                LET r == CreateSession(store, id, [UserID |-> owner],
                                       cfg.SessionExpire, up) IN
                /\ store' = r.store
                /\ issued' = IF up THEN issued \cup {id} ELSE issued
                /\ calls' = [calls EXCEPT ![p].phase = "done", ![p].id = r.id,
                                          ![p].err = r.err]
        \/ /\ calls[p].op = "DeleteByID"
           /\ LET r == DeleteByID(store, calls[p].id, up) IN
                /\ store' = r.store
                /\ calls' = [calls EXCEPT ![p].phase = "done", ![p].err = r.err]
           /\ UNCHANGED issued
        \/ /\ calls[p].op = "GetSessionByID"
           /\ LET r == GetSessionByID(store, calls[p].id, up) IN
                calls' = [calls EXCEPT ![p].phase = "done", ![p].err = r.err,
                                          ![p].owner = r.UserID, ![p].up = up]
           /\ UNCHANGED <<store, issued>>
    /\ UNCHANGED <<cfg, now, users, removed, comments,
                   loginCookies, tokens, resp>>

\* The call returns to its request task.
ConcReturn(p) ==
    /\ calls[p].phase = "done"
    /\ Returning => calls[p].op # "DeleteByID"
    /\ calls' = [calls EXCEPT ![p] = Idle]
    /\ UNCHANGED <<cfg, now, users, removed, comments, store, issued,
                   loginCookies, tokens, resp>>

(* ------------------------- auth handler requests ----------------------- *)
SessionMade(r) == r.sessErr = "" /\ r.op \in {"Register", "Login"}

Register ==
    \E u \in UserIDs \ (DOMAIN users \cup removed), pw \in RegisterPasswords,
       sid \in NewSessionID(issued),
       fault \in {"none", "read", "valid", "hash", "db", "redis"} :
        LET r == HandlersRegister(users, store, User(u, pw), sid,
                                  fault # "read", fault # "valid", fault # "hash",
                                  fault # "db", fault # "redis") IN
        /\ users' = r.users
        /\ store' = r.store
        /\ resp' = r.resp
        /\ issued' = IF SessionMade(r.resp) THEN issued \cup {sid} ELSE issued
        /\ tokens' = IF r.resp.status = 201 THEN tokens \cup {r.resp.token} ELSE tokens
        /\ loginCookies' = IF r.resp.cookie # NoCookie
                           THEN loginCookies \cup
                                {ReqCookie(r.resp.cookie.Name, r.resp.cookie.Value)}
                           ELSE loginCookies
        /\ UNCHANGED <<calls, cfg, now, removed, comments>>

Login ==
    \E u \in UserIDs, pw \in Passwords, sid \in NewSessionID(issued),
       fault \in {"none", "read", "db", "redis"} :
        LET r == HandlersLogin(users, store, u, pw, sid,
                               fault # "read", fault # "db", fault # "redis") IN
        /\ users' = r.users
        /\ store' = r.store
        /\ resp' = r.resp
        /\ issued' = IF SessionMade(r.resp) THEN issued \cup {sid} ELSE issued
        /\ tokens' = IF r.resp.status = 200 THEN tokens \cup {r.resp.token} ELSE tokens
        /\ loginCookies' = IF r.resp.cookie # NoCookie
                           THEN loginCookies \cup
                                {ReqCookie(r.resp.cookie.Name, r.resp.cookie.Value)}
                           ELSE loginCookies
        /\ UNCHANGED <<calls, cfg, now, removed, comments>>

Logout ==
    \E ck \in {NoReqCookie} \cup
              {ReqCookie(n, v) : n \in CookieNames,
                                 v \in issued \cup NewSessionID(issued)},
       up \in BOOLEAN :
        LET r == HandlersLogout(store, ck, up) IN
        /\ store' = r.store
        /\ resp' = r.resp
        /\ UNCHANGED <<calls, cfg, now, users, removed, comments, issued,
                       loginCookies, tokens>>

UserUpdate ==
    \E actor \in UserIDs \cup {NoUserID}, u \in UserIDs,
       pw \in Passwords \cup {""},
       fault \in {"none", "param", "read", "valid", "hash", "db"} :
        LET r == HandlersUpdate(users, Ctx(actor), User(u, pw),
                                fault # "param", fault # "read", fault # "valid",
                                fault # "hash", fault # "db") IN
        /\ users' = r.users
        /\ resp' = r.resp
        /\ UNCHANGED <<calls, cfg, now, removed, comments, store, issued,
                       loginCookies, tokens>>

UserDelete ==
    \E actor \in UserIDs \cup {NoUserID}, u \in UserIDs,
       fault \in {"none", "param", "db"} :
        LET r == HandlersDelete(users, Ctx(actor), u, fault # "param", fault # "db") IN
        /\ users' = r.users
        /\ removed' = IF r.resp.mutated THEN removed \cup {u} ELSE removed
        /\ resp' = r.resp
        /\ UNCHANGED <<calls, cfg, now, comments, store, issued,
                       loginCookies, tokens>>

GetUserByID ==
    \E u \in UserIDs, fault \in {"none", "param", "db"} :
        /\ resp' = HandlersGetUserByID(users, u, fault # "param", fault # "db")
        /\ UNCHANGED <<calls, cfg, now, users, removed, comments, store, issued,
                       loginCookies, tokens>>

FindByName ==
    \E u \in UserIDs, fault \in {"none", "name", "page", "db"} :
        /\ resp' = HandlersFindByName(users, u, fault # "name", fault # "page",
                                       fault # "db")
        /\ UNCHANGED <<calls, cfg, now, users, removed, comments, store, issued,
                       loginCookies, tokens>>

GetUsers ==
    \E fault \in {"none", "page", "db"} :
        /\ resp' = HandlersGetUsers(users, fault # "page", fault # "db")
        /\ UNCHANGED <<calls, cfg, now, users, removed, comments, store, issued,
                       loginCookies, tokens>>

(* -------------------------- comments requests -------------------------- *)
CommentCreate ==
    \E id \in CommentIDs \ DOMAIN comments, author \in UserIDs, msg \in Messages :
        /\ comments' = CommRepoCreate(comments, id, author, msg)
        /\ resp' = [Blank EXCEPT !.op = "CommentCreate", !.owner = author]
        /\ UNCHANGED <<calls, cfg, now, users, removed, store, issued,
                       loginCookies, tokens>>

CommentUpdate ==
    \E actor \in UserIDs \cup {NoUserID}, id \in CommentIDs, msg \in Messages :
        LET r == CommentsUpdate(comments, Ctx(actor), id, msg) IN
        /\ comments' = r.comments
        /\ resp' = [Blank EXCEPT !.op = "CommentUpdate", !.err = r.err,
                                 !.actor = actor, !.owner = r.owner,
                                 !.guard = r.guard, !.mutated = r.mutated]
        /\ UNCHANGED <<calls, cfg, now, users, removed, store, issued,
                       loginCookies, tokens>>

CommentDelete ==
    \E actor \in UserIDs \cup {NoUserID}, id \in CommentIDs :
        LET r == CommentsDelete(comments, Ctx(actor), id) IN
        /\ comments' = r.comments
        /\ resp' = [Blank EXCEPT !.op = "CommentDelete", !.err = r.err,
                                 !.actor = actor, !.owner = r.owner,
                                 !.guard = r.guard, !.mutated = r.mutated]
        /\ UNCHANGED <<calls, cfg, now, users, removed, store, issued,
                       loginCookies, tokens>>

(* --------------------------- specifications ---------------------------- *)
\* The configuration of cmd/api: session cookie "session-id".
DefaultCfg == [SessionName |-> "session-id", SessionExpire |-> 1,
               JWTSecret |-> "k1", JWTExpire |-> MaxTTL]

\* Session use case over the backend.
InitSess == Init /\ cfg = DefaultCfg

\* Token lifetimes include the already-expired one.
InitTok ==
    /\ cfg \in [SessionName : {"session-id"}, SessionExpire : {1},
                JWTSecret : Secrets, JWTExpire : JWTExpires]
    /\ now = 0
    /\ users = <<>>
    /\ removed = {}
    /\ comments = <<>>
    /\ store = <<>>
    /\ issued = {}
    /\ loginCookies = {}
    /\ tokens = {}
    /\ resp = Blank
    /\ calls = [p \in Procs |-> Idle]

NextSess ==
    \/ SessCreate
    \/ SessDelete
    \/ SessGet
    \/ Tick

SpecSess == InitSess /\ [][NextSess]_vars

\* Register / login / logout against the session store.
NextAuth ==
    \/ Register
    \/ Login
    \/ Logout
    \/ Tick

SpecAuth == Init /\ [][NextAuth]_vars

\* Mutations of owned resources and the user queries.
NextUser ==
    \/ Register
    \/ UserUpdate
    \/ UserDelete
    \/ GetUserByID
    \/ FindByName
    \/ GetUsers

SpecUser == InitSess /\ [][NextUser]_vars

NextComm ==
    \/ CommentCreate
    \/ CommentUpdate
    \/ CommentDelete

SpecComm == InitSess /\ [][NextComm]_vars

\* Session use-case calls of concurrent request tasks.
NextTok ==
    \/ Register
    \/ Login
    \/ Tick
    \/ VerifyTok

SpecTok == InitTok /\ [][NextTok]_vars

NextConc ==
    \/ \E p \in Procs : ConcInvoke(p)
    \/ \E p \in Procs : ConcBackend(p)
    \/ \E p \in Procs : ConcReturn(p)

SpecConc == InitSess /\ [][NextConc]_vars

Next ==
    \/ NextConc
    \/ NextTok
    \/ NextSess
    \/ NextAuth
    \/ NextUser
    \/ NextComm

Spec == Init /\ [][Next]_vars

(* ------------------------------ properties ----------------------------- *)
Found(u) == [UserID |-> u, err |-> ""]
Missing == [UserID |-> NoUserID, err |-> "NotFound"]

\* C1: every repository Update / Delete of an owned resource (comment or
\* user) happens only after ValidateIsOwner has succeeded for the actor.
C1_GuardBeforeMutation == resp.mutated => resp.guard = "ok"

\* C2: CreateSession(A, ttl) followed at once by GetSessionByID on the
\* returned ID returns owner A; once DeleteByID has succeeded on an ID
\* that CreateSession returned, GetSessionByID on it answers NotFound from
\* then on.
C2_CreateGetDelete ==
    /\ [](resp.op = "CreateSession" /\ resp.err = ""
            => GetSessionByID(store, resp.sessID, TRUE) = Found(resp.owner))
    /\ \A id \in SessionIDs :
          [](resp.op = "DeleteByID" /\ resp.err = "" /\ resp.sessID = id
                                    /\ id \in issued
                => [](GetSessionByID(store, id, TRUE) = Missing))

C2_Witness ==
    /\ resp.op = "DeleteByID" /\ resp.err = "" /\ ~resp.absent
    /\ resp.sessID \in issued

\* C3: after a login that set the session cookie, GetSessionByID on the
\* cookie's value returns the logged-in user; after a logout request that
\* carries that cookie, as login issued it, GetSessionByID on it is NotFound.
C3_LoginThenLogout ==
    /\ resp.op = "Login" /\ resp.status = 200
         => GetSessionByID(store, resp.cookie.Value, TRUE) = Found(resp.owner)
    /\ resp.op = "Logout" /\ resp.reqCookie \in loginCookies
                          /\ resp.err # "StoreError"
         => GetSessionByID(store, resp.reqCookie.Value, TRUE) = Missing

\* C4: a token handed out at login or registration verifies, with its
\* subject, exactly until its own expiry (issue time + token ttl), whatever
\* has happened to the sessions in the meantime.
C4_TokenIndependentOfSession ==
    \A t \in tokens :
        VerifyToken(t, cfg.JWTSecret, now) =
            IF now < t.iat + cfg.JWTExpire
            THEN [err |-> "", sub |-> t.sub]
            ELSE [err |-> "ExpiredToken", sub |-> NoUserID]

\* a token still verifies although its subject has no session left, right
\* after a logout that deleted one
C4_Witness ==
    /\ resp.op = "Logout" /\ resp.status = 200 /\ resp.sessID \in issued
    /\ \E t \in tokens :
          /\ VerifyToken(t, cfg.JWTSecret, now).err = ""
          /\ \A id \in DOMAIN store : store[id].UserID # t.sub

\* C5: a backend failure in CreateSession during Login / Register gives an
\* error response, no session cookie and neither 200 nor 201; a backend
\* failure in DeleteByID during Logout gives the error.
C5_StoreErrorPropagates ==
    resp.op \in {"Login", "Register", "Logout"} /\ resp.sessErr = "StoreError"
        => /\ resp.err = "StoreError"
           /\ resp.status \notin {200, 201}
           /\ resp.cookie = NoCookie

C5_Witness == resp.op = "Login" /\ resp.sessErr = "StoreError"

\* C6: DeleteByID of an absent ID (never created, deleted, expired) returns
\* no error and leaves the store as it is whenever the backend answers, and
\* a second DeleteByID gives the same store and result as the first.
C6_DeleteIdempotent ==
    /\ \A id \in SessionIDs :
          LET d1 == DeleteByID(store, id, TRUE)
              d2 == DeleteByID(d1.store, id, TRUE) IN
          /\ id \notin DOMAIN store => d1.err = "" /\ d1.store = store
          /\ d2.err = d1.err /\ d2.store = d1.store /\ d1.err = ""
    /\ resp.op = "DeleteByID" /\ resp.absent => resp.err \in {"", "StoreError"}

C6_Witness ==
    /\ resp.op = "DeleteByID" /\ resp.absent /\ resp.err = ""
    /\ resp.sessID \in issued

\* C7: an ID becomes active only by CreateSession, an active ID becomes
\* absent only by DeleteByID or by its TTL elapsing, and an ID that has
\* been active and is absent never becomes active again.
C7_SessionStateMachine ==
    [][\A id \in SessionIDs :
          /\ id \notin DOMAIN store /\ id \in DOMAIN store'
               => resp'.op = "CreateSession" /\ resp'.sessID = id
          /\ id \in DOMAIN store /\ id \notin DOMAIN store'
               => \/ resp'.op = "DeleteByID" /\ resp'.sessID = id
                  \/ resp'.op = "Tick" /\ store[id].exp <= now'
          /\ id \in issued /\ id \notin DOMAIN store
               => id \notin DOMAIN store']_vars

\* an ID that was active has gone, and another session was created since
C7_Witness ==
    /\ resp.op = "CreateSession" /\ resp.err = ""
    /\ \E id \in issued : id \notin DOMAIN store

\* C8: a record present in the backend is neither expired nor deleted:
\* GetSessionByID returns a session only for a present, unexpired record,
\* and absent, deleted and expired IDs all get NotFound.
C8_PresentMeansLive ==
    /\ \A id \in DOMAIN store : now < store[id].exp
    /\ resp.op = "GetSessionByID" /\ resp.err = ""
         => /\ resp.sessID \in DOMAIN store
            /\ now < store[resp.sessID].exp
            /\ resp.owner = store[resp.sessID].UserID
    /\ resp.op = "GetSessionByID" /\ resp.absent
         => resp.err \in {"NotFound", "StoreError"}
    /\ \A id \in SessionIDs \ DOMAIN store :
          GetSessionByID(store, id, TRUE) = Missing

\* a session that had been created is looked up after it has gone
C8_Witness ==
    /\ resp.op = "GetSessionByID" /\ resp.err = "NotFound"
    /\ resp.sessID \in issued /\ now >= 1

\* C9: every user value an auth use-case operation returns has an empty
\* password-hash field.
C9_ReturnedUsersSanitized == \A u \in resp.body : u.Password = ""

\* C10: ValidateIsOwner succeeds exactly when the acting identity is the
\* resource owner and fails with Forbidden otherwise; the result depends
\* on those two identities only.
C10_GuardIsComparison ==
    /\ \A a \in UserIDs, b \in UserIDs :
          ValidateIsOwner(Ctx(a), b) = IF a = b THEN "" ELSE "Forbidden"
    /\ resp.op \in {"CommentUpdate", "CommentDelete"}
          /\ resp.guard # "notcalled" /\ resp.actor # NoUserID
         => resp.guard = IF resp.actor = resp.owner THEN "ok" ELSE "Forbidden"

C10_Witness ==
    /\ resp.op = "CommentUpdate" /\ resp.guard = "Forbidden"
    /\ resp.actor # NoUserID /\ resp.actor # resp.owner

\* C11: under any interleaving of concurrent CreateSession / GetSessionByID
\* / DeleteByID calls, a call on session ID s changes neither the stored
\* record of another ID nor another call's result; a GetSessionByID returns
\* the stored owner or an error, and never the owner once a DeleteByID on
\* its ID has completed (NotFound when the backend answers).
C11_AtomicPerKey ==
    [][\A p \in Procs :
          calls[p].phase = "called" /\ calls'[p].phase = "done" =>
            LET k == calls'[p].id IN
            /\ \A s \in SessionIDs \ {k} :
                  /\ s \in DOMAIN store <=> s \in DOMAIN store'
                  /\ s \in DOMAIN store => store'[s] = store[s]
            /\ \A q \in Procs \ {p} : calls'[q] = calls[q]
            /\ calls[p].op = "GetSessionByID" =>
                  /\ store' = store
                  /\ \/ /\ calls'[p].err = "" /\ k \in DOMAIN store
                        /\ calls'[p].owner = store[k].UserID
                     \/ calls'[p].err \in {"NotFound", "StoreError"}
                  /\ (\E q \in Procs :
                         /\ calls[q].op = "DeleteByID" /\ calls[q].phase = "done"
                         /\ calls[q].err = "" /\ calls[q].id = k)
                       => /\ calls'[p].err # ""
                          /\ calls'[p].up => calls'[p].err = "NotFound"]_vars

\* a GetSessionByID is answered NotFound while the DeleteByID that removed
\* its session has not yet returned, and another session is still stored
C11_Witness ==
    \E p \in Procs, q \in Procs :
        /\ calls[p].op = "GetSessionByID" /\ calls[p].phase = "done"
        /\ calls[p].err = "NotFound"
        /\ calls[q].op = "DeleteByID" /\ calls[q].phase = "done"
        /\ calls[q].err = "" /\ calls[q].id = calls[p].id
        /\ DOMAIN store # {}
\* C12: the signature is checked before the expiry.  A presented token
\* whose claims were altered, or which is verified under another secret,
\* fails with InvalidToken whether or not its expiry has passed; an unaltered
\* token under the right secret fails with ExpiredToken once its expiry has
\* passed (at once when the configured lifetime is -1); and the token Login
\* or Register just returned, minted with a positive lifetime, verifies under
\* the configured secret to the ID of the user it was returned for.
C12_SignatureBeforeExpiry ==
    /\ resp.op = "VerifyToken" =>
          /\ (resp.tamper # "none" \/ resp.secret # cfg.JWTSecret)
                => resp.err = "InvalidToken"
          /\ (resp.tamper = "none" /\ resp.secret = cfg.JWTSecret)
                => /\ now >= resp.token.exp => resp.err = "ExpiredToken"
                   /\ now < resp.token.exp
                        => resp.err = "" /\ resp.owner = resp.token.sub
    /\ (resp.op \in {"Login", "Register"} /\ resp.status \in {200, 201}) =>
          /\ \A k \in WrongSecrets :
                VerifyToken(resp.token, k, now).err = "InvalidToken"
          /\ cfg.JWTExpire > 0 =>
                VerifyToken(resp.token, cfg.JWTSecret, now) =
                    [err |-> "", sub |-> resp.owner]
          /\ cfg.JWTExpire = -1 =>
                VerifyToken(resp.token, cfg.JWTSecret, now).err = "ExpiredToken"

\* An altered token that is also past its expiry was presented and
\* rejected, after a login whose token had verified.
C12_Witness ==
    /\ resp.op = "VerifyToken"
    /\ resp.tamper = "sub"
    /\ now >= resp.token.exp
    /\ resp.err = "InvalidToken"
    /\ cfg.JWTExpire > 0
    /\ \E t \in tokens : t.sub \in DOMAIN users /\ t.sub # resp.token.sub

\* C13: Login mints a token, calls CreateSession and sets the cookie only
\* after the user was found and the password matched the stored hash: when
\* the lookup or the comparison fails, the use case returns the error and no
\* token, the handler answers with that error, CreateSession is not called,
\* the session store is unchanged and no cookie is set.  Register likewise
\* when validation, PrepareCreate or the repository insert fails, and then
\* the user directory is unchanged too.
C13_LoginOrdering ==
    /\ \A u \in UserIDs, pw \in Passwords, sid \in NewSessionID(issued),
          dbOk \in BOOLEAN, up \in BOOLEAN :
          LET f  == RepoFindByEmail(users, u, dbOk)
              uc == UCLogin(users, u, pw, dbOk)
              r  == HandlersLogin(users, store, u, pw, sid, TRUE, dbOk, up) IN
          (f.err # "" \/ ComparePasswords(f.user.Password, pw) # "") =>
              /\ uc.err # "" /\ uc.token = NoToken
              /\ r.resp.err = uc.err /\ r.resp.status \notin {200, 201}
              /\ r.resp.token = NoToken
              /\ r.resp.sessErr = "notcalled" /\ r.resp.sessID = NoSessionID
              /\ r.resp.cookie = NoCookie
              /\ r.store = store /\ r.users = users
    /\ \A u \in UserIDs \ (DOMAIN users \cup removed), pw \in RegisterPasswords,
          sid \in NewSessionID(issued), valid \in BOOLEAN, hashOk \in BOOLEAN,
          dbOk \in BOOLEAN, up \in BOOLEAN :
          LET p  == PrepareCreate(User(u, pw), hashOk)
              uc == UCRegister(users, User(u, pw), valid, hashOk, dbOk)
              r  == HandlersRegister(users, store, User(u, pw), sid, TRUE,
                                     valid, hashOk, dbOk, up) IN
          (~valid \/ p.err # "" \/ RepoRegister(users, p.user, dbOk).err # "") =>
              /\ uc.err # "" /\ uc.token = NoToken
              /\ r.resp.err = uc.err /\ r.resp.status \notin {200, 201}
              /\ r.resp.token = NoToken
              /\ r.resp.sessErr = "notcalled" /\ r.resp.sessID = NoSessionID
              /\ r.resp.cookie = NoCookie
              /\ r.store = store /\ r.users = users
    /\ (resp.op \in {"Login", "Register"} /\ resp.sessErr = "notcalled") =>
          /\ resp.token = NoToken /\ resp.cookie = NoCookie
          /\ resp.err # ""

\* A login with a wrong password for a registered user was turned away
\* while that user holds no session.
C13_Witness ==
    /\ resp.op = "Login"
    /\ resp.err = "Unauthorized"
    /\ resp.sessErr = "notcalled"
    /\ DOMAIN users # {}
    /\ \E u \in DOMAIN users : \A k \in DOMAIN store : store[k].UserID # u

\* C14: commentsUC.Update and Delete leave the stored comments unchanged on
\* every failure before the mutation.  On an unknown comment GetByID's
\* error is returned and neither the guard nor the repository mutation is
\* called; on a guard failure the mutation is not called, the stored
\* comment is unchanged and the guard's error is returned inside a wrap.
C14_FailureLeavesComments ==
    /\ \A actor \in UserIDs \cup {NoUserID}, id \in CommentIDs, msg \in Messages :
          LET g == CommRepoGetByID(comments, id)
              v == ValidateIsOwner(Ctx(actor), g.comm.AuthorID) IN
          \A r \in {CommentsUpdate(comments, Ctx(actor), id, msg),
                     CommentsDelete(comments, Ctx(actor), id)} :
              /\ g.err # "" =>
                    /\ r.err = g.err /\ r.wrap = ""
                    /\ r.guard = "notcalled" /\ ~r.mutated
                    /\ r.comments = comments
              /\ (g.err = "" /\ v # "") =>
                    /\ r.err = v /\ r.wrap # ""
                    /\ r.guard = v /\ ~r.mutated
                    /\ r.comments = comments
    /\ (resp.op \in {"CommentUpdate", "CommentDelete"} /\ resp.err # "") =>
          ~resp.mutated /\ resp.guard # "ok"

\* A Delete by somebody else than the author was refused and the comment
\* is still stored.
C14_Witness ==
    /\ resp.op = "CommentDelete"
    /\ resp.guard = "Forbidden" /\ resp.err = "Forbidden"
    /\ ~resp.mutated
    /\ \E id \in DOMAIN comments : comments[id].AuthorID = resp.owner
    /\ Cardinality(DOMAIN comments) = MaxComments

\* C15: the session cookie that Login and Register set has the configured
\* name, the session ID CreateSession returned for that request as its
\* value, path "/", and as max-age the TTL that was passed to CreateSession
\* (the configured session expiry), so that the backend record expires when
\* the cookie does.
C15_CookieCarriesSession ==
    (resp.op \in {"Login", "Register"} /\ resp.cookie # NoCookie) =>
        /\ resp.cookie.Name = cfg.SessionName
        /\ resp.sessID # NoSessionID
        /\ resp.cookie.Value = resp.sessID
        /\ resp.cookie.Path = "/"
        /\ resp.ttl = cfg.SessionExpire
        /\ resp.cookie.MaxAge = resp.ttl
        /\ resp.sessID \in DOMAIN store
        /\ store[resp.sessID].exp = now + resp.cookie.MaxAge

\* Register answered with a cookie for a fresh session while an earlier
\* session is still stored.
C15_Witness ==
    /\ resp.op = "Register" /\ resp.status = 201
    /\ resp.cookie = Cookie(cfg.SessionName, resp.sessID, cfg.SessionExpire)
    /\ cfg.SessionExpire # cfg.JWTExpire
    /\ \E k \in DOMAIN store : k # resp.sessID

\* C16: no internal retries.  Whatever the backend does, CreateSession,
\* GetSessionByID and DeleteByID give the caller the result and the error
\* of one repository call, unchanged, and leave the backend as that one
\* call left it; when the backend does not answer, the caller gets
\* StoreError from that first attempt and the backend is untouched.
C16_NoInternalRetries ==
    /\ \A up \in BOOLEAN :
          /\ \A id \in NewSessionID(issued), owner \in UserIDs, ttl \in TTLs :
                LET r == CreateSession(store, id, [UserID |-> owner], ttl, up) IN
                /\ r = RepoCreateSession(store, id, [UserID |-> owner], ttl, up)
                /\ ~up => r.err = "StoreError" /\ r.store = store
          /\ \A id \in SessionIDs :
                LET d == DeleteByID(store, id, up)
                    g == GetSessionByID(store, id, up) IN
                /\ d = RepoDeleteByID(store, id, up)
                /\ g = RepoGetSessionByID(store, id, up)
                /\ ~up => /\ d.err = "StoreError" /\ d.store = store
                          /\ g.err = "StoreError" /\ g.UserID = NoUserID
    /\ resp.op \in {"CreateSession", "GetSessionByID", "DeleteByID"}
          => resp.err = resp.sessErr

\* A read of a stored, live session failed because the backend did not
\* answer, and the failure reached the caller.
C16_Witness ==
    /\ resp.op = "GetSessionByID"
    /\ resp.err = "StoreError"
    /\ resp.sessID \in DOMAIN store
    /\ now < store[resp.sessID].exp

\* C17: when Login or Register sets a session cookie, the backend holds a
\* session with the cookie's value as ID, created in that request for the
\* user the response is about; Register answers 201 and Login 200 only if
\* the user operation and CreateSession both succeeded; and when
\* CreateSession fails after Register stored the user, the user stays
\* stored while the response is an error without cookie.
C17_CookieMeansSession ==
    [][resp'.op \in {"Login", "Register"} =>
          /\ resp'.cookie # NoCookie =>
                /\ resp'.cookie.Value \notin DOMAIN store
                /\ resp'.cookie.Value \in DOMAIN store'
                /\ store'[resp'.cookie.Value].UserID = resp'.owner
                /\ resp'.owner \in DOMAIN users'
                /\ \A u \in resp'.body : u.UserID = resp'.owner
                /\ resp'.status = IF resp'.op = "Register" THEN 201 ELSE 200
          /\ resp'.status \in {200, 201} =>
                /\ resp'.status = IF resp'.op = "Register" THEN 201 ELSE 200
                /\ resp'.err = "" /\ resp'.sessErr = ""
                /\ resp'.cookie # NoCookie
                /\ resp'.token # NoToken
                /\ resp'.owner \in DOMAIN users'
                /\ resp'.op = "Register" => resp'.owner \notin DOMAIN users
                /\ resp'.op = "Login" => users' = users
          /\ (resp'.op = "Register" /\ resp'.sessErr = "StoreError") =>
                /\ resp'.owner \notin DOMAIN users
                /\ resp'.owner \in DOMAIN users'
                /\ resp'.err = "StoreError"
                /\ resp'.status \notin {200, 201}
                /\ resp'.cookie = NoCookie
                /\ store' = store]_vars

\* A registration stored its user, failed to create the session and
\* answered with the error; the user is stored and has no session.
C17_Witness ==
    /\ resp.op = "Register"
    /\ resp.sessErr = "StoreError"
    /\ resp.status \notin {200, 201}
    /\ resp.owner \in DOMAIN users
    /\ \A k \in DOMAIN store : store[k].UserID # resp.owner

\* C18: a Logout request that carries no cookie under the name Logout reads
\* ("session-id") is answered Unauthorized, DeleteByID is not called and no
\* cookie is cleared; Logout sends the clearing cookie only after DeleteByID
\* has succeeded; when DeleteByID fails no cookie is sent, the session store
\* is as before and the error is the answer.
C18_LogoutClearsAfterDelete ==
    [][resp'.op = "Logout" =>
          /\ resp'.reqCookie.Name # "session-id" =>
                /\ resp'.err = "Unauthorized" /\ resp'.status = 401
                /\ resp'.sessErr = "notcalled"
                /\ resp'.cookie = NoCookie
                /\ store' = store
          /\ resp'.cookie # NoCookie =>
                /\ resp'.reqCookie.Name = "session-id"
                /\ resp'.sessErr = "" /\ resp'.err = ""
                /\ resp'.sessID = resp'.reqCookie.Value
                /\ resp'.sessID \notin DOMAIN store'
                /\ resp'.cookie = DeleteSessionCookie(cfg.SessionName)
          /\ resp'.sessErr = "StoreError" =>
                /\ resp'.err = "StoreError"
                /\ resp'.status # 200
                /\ resp'.cookie = NoCookie
                /\ store' = store]_vars

\* A logout carrying the cookie of a live session failed in DeleteByID:
\* no clearing cookie went out and the session is still stored.
C18_Witness ==
    /\ resp.op = "Logout"
    /\ resp.sessErr = "StoreError"
    /\ resp.cookie = NoCookie
    /\ resp.reqCookie \in loginCookies
    /\ resp.reqCookie.Value \in DOMAIN store

\* C19: the sessions of one user are independent.  A Login or Register
\* leaves every stored session as it was, of the same user and of others,
\* and when it succeeds adds exactly one session under a new ID; a Logout
\* removes at most the session whose ID the request's cookie carries and
\* leaves every other session as it was.
C19_SessionsIndependent ==
    [][/\ resp'.op \in {"Login", "Register"} =>
             /\ \A k \in DOMAIN store :
                    k \in DOMAIN store' /\ store'[k] = store[k]
             /\ DOMAIN store' \subseteq DOMAIN store \cup {resp'.sessID}
             /\ resp'.status \in {200, 201} =>
                    /\ resp'.sessID \notin DOMAIN store
                    /\ resp'.sessID \in DOMAIN store'
                    /\ store'[resp'.sessID].UserID = resp'.owner
       /\ resp'.op = "Logout" =>
             /\ \A k \in DOMAIN store \ {resp'.reqCookie.Value} :
                    k \in DOMAIN store' /\ store'[k] = store[k]
             /\ DOMAIN store' \subseteq DOMAIN store]_vars

\* A user who already had a session logged in again and now has both.
C19_Witness ==
    /\ resp.op = "Login" /\ resp.status = 200
    /\ resp.sessID \in DOMAIN store
    /\ \E k \in DOMAIN store \ {resp.sessID} :
          /\ store[k].UserID = resp.owner
          /\ store[resp.sessID].UserID = resp.owner

====
